---------------------------- MODULE Spec2Model ----------------------------
(***************************************************************************)
(* A model of the ChaCha20 stream cipher of                                *)
(* src/chacha20project/chacha20_main.py.                                   *)
(*                                                                         *)
(* Python integers are unbounded; the model checker's integers are 32-bit  *)
(* signed.  A Python int n >= 0 is therefore held as a record              *)
(* [hi |-> n \div 2^16, lo |-> n % 2^16] of two limbs: lo is always below  *)
(* 2^16, hi is any natural number, so that a value of 2^32 and above (a    *)
(* counter that has run past 32 bits) is representable: it is exactly a    *)
(* value whose hi limb is 2^16 or more.  A bytes object is a sequence of   *)
(* numbers in 0..255; Python's index i is the sequence's index i + 1.  A   *)
(* Python list of words is a function on 0..n-1, so that the indices of    *)
(* the model are those of the source.                                      *)
(***************************************************************************)
EXTENDS Integers, Sequences, FiniteSets, TLC

\* 2^16, the size of one limb of the representation of a Python int.
Limb == 256 * 256

\* The Python int hi * 2^16 + lo.
W(h, l) == [hi |-> h, lo |-> l]

\* n < 2^32: the int fits an unsigned 32-bit word.
IsU32(x) == x.hi \in 0..(Limb - 1) /\ x.lo \in 0..(Limb - 1)

\* Bit number k (of weight 2^k = p) of a natural number.
Bit(a, p) == (a \div p) % 2

\* XOR of two bits.
XorBit(x, y) == (x + y) % 2

\* XOR of two numbers below 16, bit by bit.
Xor4 ==
  [a \in 0..15 |-> [b \in 0..15 |->
     XorBit(Bit(a, 1), Bit(b, 1))
     + 2 * XorBit(Bit(a, 2), Bit(b, 2))
     + 4 * XorBit(Bit(a, 4), Bit(b, 4))
     + 8 * XorBit(Bit(a, 8), Bit(b, 8))]]

\* Python's a ^ b on natural numbers of any size, four bits at a time.
RECURSIVE XorNat(_, _)
XorNat(a, b) ==
  IF a = 0 THEN b
  ELSE IF b = 0 THEN a
  ELSE Xor4[a % 16][b % 16] + (16 * XorNat(a \div 16, b \div 16))

\* Python's x ^ y on ints.
Xor(x, y) == W(XorNat(x.hi, y.hi), XorNat(x.lo, y.lo))

\* Python's x + y on ints (unbounded: the sum may leave 32 bits).
Add(x, y) ==
  LET l == x.lo + y.lo
  IN  W(x.hi + y.hi + (l \div Limb), l % Limb)

\* Python's x & 0xFFFFFFFF.
And32(x) == W(x.hi % Limb, x.lo)

\* 2^n for n in 0..16.
Pow2(n) == CASE n = 0 -> 1 [] n = 1 -> 2 [] n = 2 -> 4 [] n = 3 -> 8
             [] n = 4 -> 16 [] n = 5 -> 32 [] n = 6 -> 64 [] n = 7 -> 128
             [] n = 8 -> 256 [] n = 9 -> 512 [] n = 10 -> 1024
             [] n = 11 -> 2048 [] n = 12 -> 4096 [] n = 13 -> 8192
             [] n = 14 -> 16384 [] n = 15 -> 32768 [] n = 16 -> 65536

\* A variant of rotate_left that reduces the shift with the mask 15 instead
\* of 31: shift &= 15.
rotate_left_mask_15(value, shift) ==
  LET v == And32(value)
      t == shift % 16
  IN  W(((v.hi * Pow2(t)) % Limb) + (v.lo \div Pow2(16 - t)),
        ((v.lo * Pow2(t)) % Limb) + (v.hi \div Pow2(16 - t)))

\* A variant of rotate_left that rotates to the right:
\* (value >> shift) | (value << (32 - shift)).
rotate_left_to_the_right(value, shift) ==
  LET v == And32(value)
      s == (32 - (shift % 32)) % 32
      t == s % 16
      h == IF s < 16 THEN v.hi ELSE v.lo
      l == IF s < 16 THEN v.lo ELSE v.hi
  IN  W(((h * Pow2(t)) % Limb) + (l \div Pow2(16 - t)),
        ((l * Pow2(t)) % Limb) + (h \div Pow2(16 - t)))

\* A variant of rotate_left that shifts without carrying the upper bits
\* round: (value << shift) & 0xFFFFFFFF.
rotate_left_shift_only(value, shift) ==
  LET v == And32(value)
      s == shift % 32
      t == s % 16
  IN  IF s < 16
      THEN W(((v.hi * Pow2(t)) % Limb) + (v.lo \div Pow2(16 - t)),
             (v.lo * Pow2(t)) % Limb)
      ELSE W((v.lo * Pow2(t)) % Limb, 0)

(***************************************************************************)
(* rotate_left(value, shift):                                              *)
(*     value &= 0xFFFFFFFF                                                 *)
(*     shift &= 31                                                         *)
(*     return ((value << shift) | (value >> (32 - shift))) & 0xFFFFFFFF    *)
(* On limbs, with s = shift & 31 and t = s % 16: the two operands of | have *)
(* no bit in common below 2^32 (the low s bits of value << s are zero, and *)
(* value >> (32 - s) is below 2^s), so | is + there.                       *)
(***************************************************************************)
rotate_left(value, shift) ==
  LET v == And32(value)
      s == shift % 32
      t == s % 16
      \* the limbs of v, exchanged when the rotation is by 16 or more
      h == IF s < 16 THEN v.hi ELSE v.lo
      l == IF s < 16 THEN v.lo ELSE v.hi
  IN  W(((h * Pow2(t)) % Limb) + (l \div Pow2(16 - t)),
        ((l * Pow2(t)) % Limb) + (h \div Pow2(16 - t)))

\* state[x] = (state[x] + state[y]) & 0xFFFFFFFF.  Each of the three
\* assignment operators binds the list it is given, so that the list is
\* computed once.
add_step(state, x, y) ==
  CHOOSE result \in
    { [list EXCEPT ![x] = And32(Add(list[x], list[y]))] : list \in {state} } : TRUE

\* state[x] ^= state[y]
xor_step(state, x, y) ==
  CHOOSE result \in
    { [list EXCEPT ![x] = Xor(list[x], list[y])] : list \in {state} } : TRUE

\* state[x] = rotate_left(state[x], n)
rotate_step(state, x, n) ==
  CHOOSE result \in
    { [list EXCEPT ![x] = rotate_left(list[x], n)] : list \in {state} } : TRUE

(***************************************************************************)
(* One of the four numbered steps of quarter_round, three assignments:     *)
(*     x += y; z ^= x; z <<<= n                                            *)
(* each on the list as the previous one left it.                           *)
(***************************************************************************)
qr_step(state, x, y, z, n) ==
  rotate_step(xor_step(add_step(state, x, y), z, x), z, n)

\* A variant of quarter_round whose first rotation stores its result one
\* word further on: state[(d + 1) % 16] = rotate_left(state[d], 16).
quarter_round_stray_store(state, a, b, c, d) ==
  CHOOSE result \in
    { qr_step(qr_step(qr_step(
        [xor_step(add_step(list, a, b), d, a) EXCEPT
           ![(d + 1) % 16] = rotate_left(xor_step(add_step(list, a, b), d, a)[d], 16)],
        c, d, b, 12), a, b, d, 8), c, d, b, 7)
      : list \in {state} } : TRUE

\* A variant of quarter_round whose last two rotations are exchanged: by 7
\* in step 3 and by 8 in step 4.
quarter_round_7_then_8(state, a, b, c, d) ==
  CHOOSE result \in
    { qr_step(qr_step(qr_step(qr_step(list,
        a, b, d, 16), c, d, b, 12), a, b, d, 7), c, d, b, 8)
      : list \in {state} } : TRUE

(***************************************************************************)
(* quarter_round(state, a, b, c, d): the four steps of the source, in      *)
(* order (the innermost application is the first step).  The result is the *)
(* list after the call (the source mutates it in place).  `list` is the    *)
(* argument as it is when the call is made: a Python call evaluates its    *)
(* arguments first, and binding `list` as the one element of a set makes   *)
(* the model checker do the same instead of evaluating on demand.          *)
(***************************************************************************)
quarter_round(state, a, b, c, d) ==
  CHOOSE result \in
    { qr_step(qr_step(qr_step(qr_step(list,
        a, b, d, 16),    \* Step 1: a += b; d ^= a; d <<<= 16
        c, d, b, 12),    \* Step 2: c += d; b ^= c; b <<<= 12
        a, b, d, 8),     \* Step 3: a += b; d ^= a; d <<<= 8
        c, d, b, 7)      \* Step 4: c += d; b ^= c; b <<<= 7
      : list \in {state} } : TRUE

\* A Python list holding the elements of a sequence: indices 0..n-1.
List(seq) == [i \in 0..(Len(seq) - 1) |-> seq[i + 1]]

\* len() of a Python list.
ListLen(list) == Cardinality(DOMAIN list)

\* The result of a call: a returned value, or a raised exception.
Returned(v) == [raised |-> FALSE, value |-> v]
Raised(e) == [raised |-> TRUE, value |-> e]

\* A variant of unpack that reads the first 4 * n bytes of a longer buffer
\* (struct.unpack_from): a too-long key or nonce is cut short silently.
unpack_prefix(n, buf) ==
  IF Len(buf) < 4 * n
  THEN Raised("struct.error")
  ELSE Returned([i \in 1..n |->
         W(buf[4 * i - 1] + 256 * buf[4 * i],
           buf[4 * i - 3] + 256 * buf[4 * i - 2])])

(***************************************************************************)
(* struct.unpack('<nI', buf): n little-endian unsigned 32-bit words.       *)
(* struct.error unless buf is exactly 4 * n bytes long.                    *)
(***************************************************************************)
unpack(n, buf) ==
  IF Len(buf) # 4 * n
  THEN Raised("struct.error")
  ELSE Returned([i \in 1..n |->
         W(buf[4 * i - 1] + 256 * buf[4 * i],
           buf[4 * i - 3] + 256 * buf[4 * i - 2])])

\* The four bytes of one word, least significant first.
WordBytes(x) == << x.lo % 256, x.lo \div 256, x.hi % 256, x.hi \div 256 >>

\* A variant of pack that writes each word most significant byte first:
\* struct.pack('>16I', *words).
pack_big_endian(words) ==
  IF \E i \in DOMAIN words : ~IsU32(words[i])
  THEN Raised("struct.error")
  ELSE Returned([j \in 1..(4 * ListLen(words)) |->
         WordBytes(words[(j - 1) \div 4])[4 - ((j - 1) % 4)]])

(***************************************************************************)
(* struct.pack('<16I', *words): 64 bytes, word 0 first, each word          *)
(* little-endian.  struct.error when a word is not in [0, 2^32).           *)
(***************************************************************************)
pack(words) ==
  IF \E i \in DOMAIN words : ~IsU32(words[i])
  THEN Raised("struct.error")
  ELSE Returned([j \in 1..(4 * ListLen(words)) |->
         WordBytes(words[(j - 1) \div 4])[((j - 1) % 4) + 1]])

\* "expand 32-byte k", as four little-endian words.
constants ==
  << W(24944, 30821),   \* 0x61707865
     W(13088, 25710),   \* 0x3320646e
     W(31074, 11570),   \* 0x79622d32
     W(27424, 25972) >> \* 0x6b206574

\* A variant of initial_state with the nonce before the counter (words 12-14
\* the nonce, word 15 the counter).
initial_state_nonce_first(key, counter, nonce) ==
  LET key_words == unpack(8, key)
      nonce_words == unpack(3, nonce)
  IN  IF key_words.raised THEN key_words
      ELSE IF nonce_words.raised THEN nonce_words
      ELSE Returned(List(constants \o key_words.value
                          \o nonce_words.value \o << counter >>))

\* A variant of initial_state that packs the counter as an unsigned 32-bit
\* word (struct.pack('<I', counter)): struct.error for a counter of 2^32 or
\* more.
initial_state_packed(key, counter, nonce) ==
  LET key_words == unpack(8, key)
      nonce_words == unpack(3, nonce)
  IN  IF key_words.raised THEN key_words
      ELSE IF nonce_words.raised THEN nonce_words
      ELSE IF ~IsU32(counter) THEN Raised("struct.error")
      ELSE Returned(List(constants \o key_words.value
                          \o << counter >> \o nonce_words.value))

(***************************************************************************)
(* initial_state(key, counter, nonce): the key is unpacked first, then the *)
(* nonce; the counter is stored as it was passed.                          *)
(***************************************************************************)
initial_state(key, counter, nonce) ==
  LET key_words == unpack(8, key)
      nonce_words == unpack(3, nonce)
  IN  IF key_words.raised THEN key_words
      ELSE IF nonce_words.raised THEN nonce_words
      ELSE Returned(List(constants \o key_words.value
                          \o << counter >> \o nonce_words.value))

(***************************************************************************)
(* One pass of the loop body of chacha20_block (a double round): the four  *)
(* column quarter-rounds, then the four diagonal ones, in the order of the *)
(* source (the innermost application is the first call), each on the list  *)
(* as the call before it left it.                                          *)
(***************************************************************************)
double_round(working_state) ==
  CHOOSE result \in
    { quarter_round(quarter_round(quarter_round(quarter_round(
      quarter_round(quarter_round(quarter_round(quarter_round(list,
        0, 4, 8, 12),     \* Column 1
        1, 5, 9, 13),     \* Column 2
        2, 6, 10, 14),    \* Column 3
        3, 7, 11, 15),    \* Column 4
        0, 5, 10, 15),    \* Main diagonal
        1, 6, 11, 12),    \* Diagonal + 1
        2, 7, 8, 13),     \* Diagonal + 2
        3, 4, 9, 14)      \* Diagonal + 3
      : list \in {working_state} } : TRUE

\* The working state after n passes of `for round_num in range(10)`.
RECURSIVE rounds(_, _)
rounds(working_state, n) ==
  IF n = 0 THEN working_state
  ELSE double_round(rounds(working_state, n - 1))

\* The number of passes of the loop of chacha20_block: range(10).
DoubleRounds == 10

(***************************************************************************)
(* chacha20_block(key, counter, nonce): state is what initial_state       *)
(* returned, working_state the copy after the ten passes, final_state the  *)
(* list of line 383; each is bound, so that it is computed once.           *)
(***************************************************************************)
chacha20_block(key, counter, nonce) ==
  CHOOSE result \in UNION
    { IF state.raised THEN {state}
      ELSE UNION
        { { pack(final_state) :
              final_state \in { [i \in 0..15 |->
                                  And32(Add(working_state[i], state.value[i]))] } } :
            working_state \in { rounds(state.value, DoubleRounds) } } :
        state \in { initial_state(key, counter, nonce) } } : TRUE

\* A small Python int n (below 2^31) as an int of the model, and back.
PyInt(n) == W(n \div Limb, n % Limb)

\* Python's min(a, b).
min(a, b) == IF a < b THEN a ELSE b

\* The bytes of one keystream block, and the lengths the source unpacks.
BlockBytes == 64
KeyBytes == 32
NonceBytes == 12

(***************************************************************************)
(* The inputs.  A key, nonce or text is named by its length and a seed;    *)
(* seed 0 with the right length is the key 00 01 .. 1f and the nonce       *)
(* 00 00 00 00 00 00 00 4a 00 00 00 00 of RFC 8439, section 2.4.2.         *)
(***************************************************************************)
MaxBlocks == 2   \* texts are up to MaxBlocks whole blocks and one byte long
MaxSeed == 1     \* the contents of keys and texts are drawn from seeds 0..MaxSeed

Bytes(len, seed) == [i \in 1..len |-> ((i - 1) + (seed * 85) + (seed * i * 7)) % 256]

RfcNonce == << 0, 0, 0, 0, 0, 0, 0, 74, 0, 0, 0, 0 >>

Keys == { Bytes(KeyBytes, seed) : seed \in 0..MaxSeed }
         \cup { Bytes(len, 0) : len \in {KeyBytes - 1, KeyBytes + 1} }

Nonces == { RfcNonce, SubSeq(RfcNonce, 1, NonceBytes - 1), Append(RfcNonce, 0) }

\* 0, 1, and the last 32-bit value, 2^32 - 1.
Counters == { W(0, 0), W(0, 1), W(Limb - 1, Limb - 1) }

\* Lengths 0, 1, and one below, at and one above each whole number of blocks.
Lengths == { n \in 0..(MaxBlocks * BlockBytes + 1) :
               n % BlockBytes \in {0, 1, BlockBytes - 1} }

\* The 114-byte plaintext of RFC 8439, section 2.4.2 ("Ladies and Gentlemen
\* of the class of '99: ..."), the message of test_chacha20_encryption.
SunscreenText ==
  << 76, 97, 100, 105, 101, 115, 32, 97, 110, 100, 32, 71, 101, 110, 116, 108,
     101, 109, 101, 110, 32, 111, 102, 32, 116, 104, 101, 32, 99, 108, 97, 115,
     115, 32, 111, 102, 32, 39, 57, 57, 58, 32, 73, 102, 32, 73, 32, 99, 111,
     117, 108, 100, 32, 111, 102, 102, 101, 114, 32, 121, 111, 117, 32, 111,
     110, 108, 121, 32, 111, 110, 101, 32, 116, 105, 112, 32, 102, 111, 114,
     32, 116, 104, 101, 32, 102, 117, 116, 117, 114, 101, 44, 32, 115, 117,
     110, 115, 99, 114, 101, 101, 110, 32, 119, 111, 117, 108, 100, 32, 98,
     101, 32, 105, 116, 46 >>

Texts == { Bytes(len, seed) : len \in Lengths, seed \in 0..MaxSeed }
         \cup { SunscreenText }

\* The values test_rotate_left rotates (0x12345678, 1, 0x80000000,
\* 0xFFFFFFFF, 0xF0F0F0F0, 0x01020304), 0, and 2^32 + 1, which is not a
\* 32-bit value.
Values ==
  { W(4660, 22136), W(0, 1), W(32768, 0), W(65535, 65535), W(61680, 61680),
    W(258, 772), W(0, 0), W(Limb, 1) }

\* The shifts: some negative ones, 0..31, 32 and above.
MaxShift == 33   \* the largest shift of a first rotate_left call
Shifts == (0 - 2)..MaxShift

\* The state of the quarter-round test vector of RFC 8439, section 2.2.1.
RfcQuarterRoundState ==
  List(<< W(34709, 12768), W(50668, 62333), W(20836, 25009), W(51622, 12170),
          W(17602, 3827), W(13200, 44927), W(55804, 26891), W(10847, 29004),
          W(21303, 10087), W(45066, 22065), W(38732, 21530), W(13726, 39267),
          W(23703, 4193), W(15715, 5769), W(8344, 55766), W(37339, 54048) >>)

\* The states quarter_round is called on: the test vector's, and the initial
\* states of the valid keys for counter 1.
QuarterRoundStates ==
  { RfcQuarterRoundState }
  \cup { initial_state(Bytes(KeyBytes, seed), W(0, 1), RfcNonce).value :
           seed \in 0..MaxSeed }

\* The index arguments of the calls of quarter_round: the four columns and
\* the four diagonals of chacha20_block.
QuarterRoundIndices ==
  { << 0, 4, 8, 12 >>, << 1, 5, 9, 13 >>, << 2, 6, 10, 14 >>, << 3, 7, 11, 15 >>,
    << 0, 5, 10, 15 >>, << 1, 6, 11, 12 >>, << 2, 7, 8, 13 >>, << 3, 4, 9, 14 >> }

(***************************************************************************)
(* The state: one call of a function of the module by its caller.          *)
(***************************************************************************)
VARIABLES
  args,        \* the function called (op) and its arguments
  pc,          \* "call": entered; "loop": at the head of the for loop of
               \* chacha20_encrypt; "returned"; "raised"
  counter,     \* chacha20_encrypt: the loop variable
  ciphertext,  \* chacha20_encrypt: the output buffer
  result,      \* what the call returned or raised, once pc says it has
  blocks,      \* history: the counters this call passed to chacha20_block
  message,     \* the caller's copy of what it passed to its first call:
               \* the plaintext of chacha20_encrypt (a second call is made
               \* on the first one's output, the round trip of main), the
               \* value and shift of rotate_left, the list of quarter_round
  nth,         \* the number of this call among the caller's calls: 1 or 2
  prints,      \* standard output: the number of print() calls made so far
  frame,       \* chacha20_block run statement by statement: its locals
               \* (state, working_state and final_state are references to
               \* list objects, 0 when unbound) and the position in it
  heap,        \* the list objects: reference |-> the list's words
  quarter_rounds  \* history: the index arguments of the quarter_round
               \* calls chacha20_block has made, in the order of the calls

\* The variables of a chacha20_block call run statement by statement.
block_vars == << frame, heap, quarter_rounds >>

vars == << args, pc, counter, ciphertext, result, blocks, message, nth, prints,
           frame, heap, quarter_rounds >>

\* The locals of chacha20_block before the call has bound any.
NoFrame ==
  [state |-> 0, working_state |-> 0, final_state |-> 0, round_num |-> 0,
   call |-> 1, list |-> 0, a |-> 0, b |-> 0, c |-> 0, d |-> 0, line |-> 1]

NoResult == [raised |-> FALSE, value |-> "none"]

InitialStateArgs ==
  { [op |-> "initial_state", key |-> k, counter |-> c, nonce |-> n] :
      k \in Keys, c \in Counters, n \in Nonces }

BlockArgs ==
  { [op |-> "chacha20_block", key |-> k, counter |-> c, nonce |-> n] :
      k \in Keys, c \in Counters, n \in Nonces }

EncryptArgs ==
  { [op |-> "chacha20_encrypt", key |-> k, nonce |-> n, plaintext |-> p,
     initial_counter |-> c] :
      k \in Keys, n \in Nonces, p \in Texts, c \in Counters }

\* chacha20_encrypt(key, nonce, plaintext): the call passes no initial_counter.
EncryptDefaultArgs ==
  { [op |-> "chacha20_encrypt", key |-> k, nonce |-> n, plaintext |-> p] :
      k \in Keys, n \in Nonces, p \in Texts }

RotateArgs ==
  { [op |-> "rotate_left", value |-> v, shift |-> s] :
      v \in Values, s \in Shifts }

QuarterRoundArgs ==
  { [op |-> "quarter_round", state |-> st, a |-> ix[1], b |-> ix[2],
     c |-> ix[3], d |-> ix[4]] :
      st \in QuarterRoundStates, ix \in QuarterRoundIndices }

Init ==
  /\ args \in InitialStateArgs \cup BlockArgs \cup EncryptArgs
              \cup EncryptDefaultArgs \cup RotateArgs \cup QuarterRoundArgs
  /\ pc = "call"
  /\ counter = 0
  /\ ciphertext = << >>
  /\ result = NoResult
  /\ blocks = << >>
  /\ message = CASE args.op = "chacha20_encrypt" -> args.plaintext
                  [] args.op = "rotate_left" -> args
                  [] args.op = "quarter_round" -> args.state
                  [] OTHER -> << >>
  /\ nth = 1
  /\ prints = 0
  /\ frame = NoFrame
  /\ heap = << >>
  /\ quarter_rounds = << >>

\* print() calls of initial_state: line 296, unless an unpack raised first.
initial_state_prints(state) == IF state.raised THEN 0 ELSE 1

\* print() calls of the loop of chacha20_block: one in each pass with an
\* even round_num (lines 378-379).
round_prints == Cardinality({ round_num \in 0..(DoubleRounds - 1) : round_num % 2 = 0 })

\* print() calls of chacha20_block: line 350, those of initial_state, and
\* unless initial_state raised, line 358, those of the loop and line 389.
chacha20_block_prints(state) ==
  1 + initial_state_prints(state)
    + (IF state.raised THEN 0 ELSE 1 + round_prints + 1)

\* A call of rotate_left by the caller.
CallRotateLeft ==
  /\ pc = "call"
  /\ args.op = "rotate_left"
  /\ result' = Returned(rotate_left(args.value, args.shift))
  /\ pc' = "returned"
  /\ UNCHANGED << args, counter, ciphertext, blocks, message, nth, prints >>
  /\ UNCHANGED block_vars

\* The caller's second call of rotate_left: on the result of the first, with
\* a shift in 0..31 (test_rotate_left rotates by 8 twice).
RotateAgain ==
  /\ pc = "returned"
  /\ args.op = "rotate_left"
  /\ nth = 1
  /\ nth' = 2
  /\ \E b \in 0..31 : args' = [args EXCEPT !.value = result.value, !.shift = b]
  /\ pc' = "call"
  /\ result' = NoResult
  /\ UNCHANGED << counter, ciphertext, blocks, message, prints >>
  /\ UNCHANGED block_vars

\* A call of quarter_round by the caller: the list it passes is changed in
\* place, and the call returns None.
CallQuarterRound ==
  /\ pc = "call"
  /\ args.op = "quarter_round"
  /\ args' = [args EXCEPT !.state = quarter_round(args.state, args.a, args.b,
                                                  args.c, args.d)]
  /\ result' = Returned("None")
  /\ pc' = "returned"
  /\ UNCHANGED << counter, ciphertext, blocks, message, nth, prints >>
  /\ UNCHANGED block_vars

\* A call of initial_state by the caller.
CallInitialState ==
  /\ pc = "call"
  /\ args.op = "initial_state"
  /\ result' = initial_state(args.key, args.counter, args.nonce)
  /\ pc' = IF result'.raised THEN "raised" ELSE "returned"
  /\ prints' = prints + initial_state_prints(result')
  /\ UNCHANGED << args, counter, ciphertext, blocks, message, nth >>
  /\ UNCHANGED block_vars

\* A call of chacha20_block by the caller.
CallBlock ==
  /\ pc = "call"
  /\ args.op = "chacha20_block"
  /\ result' = chacha20_block(args.key, args.counter, args.nonce)
  /\ pc' = IF result'.raised THEN "raised" ELSE "returned"
  /\ prints' = prints + chacha20_block_prints(result')
  /\ UNCHANGED << args, counter, ciphertext, blocks, message, nth >>
  /\ UNCHANGED block_vars

\* A variant of block_count that adds a block instead of rounding up:
\* len(plaintext) // 64 + 1.
block_count_plus_one(plaintext) == (Len(plaintext) \div 64) + 1

\* A variant of block_count that rounds down: len(plaintext) // 64.
block_count_floor(plaintext) == Len(plaintext) \div 64

\* block_count = (len(plaintext) + 63) // 64
block_count(plaintext) == (Len(plaintext) + 63) \div 64

\* A variant of EncryptEnter without the test for the empty input.
EncryptEnter_no_shortcut ==
  /\ pc = "call"
  /\ args.op = "chacha20_encrypt"
  /\ pc' = "loop"
  /\ ciphertext' = << >>
  /\ counter' = 0
  /\ prints' = prints + 2
  /\ UNCHANGED << args, result, blocks, message, nth >>
  /\ UNCHANGED block_vars

(***************************************************************************)
(* chacha20_encrypt, up to the loop: the empty input returns at once.  It  *)
(* prints at line 450, and at line 454 (empty input) or 464.               *)
(***************************************************************************)
EncryptEnter ==
  /\ pc = "call"
  /\ args.op = "chacha20_encrypt"
  /\ IF Len(args.plaintext) = 0
     THEN /\ pc' = "returned"
          /\ result' = Returned(<< >>)
     ELSE /\ pc' = "loop"
          /\ result' = result
  /\ ciphertext' = << >>
  /\ counter' = 0
  /\ prints' = prints + 2
  /\ UNCHANGED << args, blocks, message, nth >>
  /\ UNCHANGED block_vars

\* A variant of block_counter that passes initial_counter for every block.
block_counter_fixed(c, initial_counter) == initial_counter

\* A variant of block_counter that advances by two for each block.
block_counter_step_two(c, initial_counter) == Add(PyInt(2 * c), initial_counter)

\* The counter chacha20_encrypt passes to chacha20_block for loop value c.
block_counter(c, initial_counter) == Add(PyInt(c), initial_counter)

\* A variant of xor_block that adds the keystream byte modulo 256 instead of
\* XOR-ing it.
xor_block_add(plaintext, keystream, c) ==
  LET start_pos == c * 64
      end_pos == min(start_pos + 64, Len(plaintext))
      block_size == end_pos - start_pos
  IN  [i \in 1..block_size |-> (plaintext[start_pos + i] + keystream[i]) % 256]

\* A variant of xor_block that reads the plaintext without the offset of the
\* block: plaintext[i] ^ keystream[i].
xor_block_no_offset(plaintext, keystream, c) ==
  LET start_pos == c * 64
      end_pos == min(start_pos + 64, Len(plaintext))
      block_size == end_pos - start_pos
  IN  [i \in 1..block_size |-> XorNat(plaintext[i], keystream[i])]

\* A variant of xor_block that takes the keystream bytes of a partial block
\* from the end of the keystream block: keystream[-block_size:].
xor_block_keystream_tail(plaintext, keystream, c) ==
  LET start_pos == c * 64
      end_pos == min(start_pos + 64, Len(plaintext))
      block_size == end_pos - start_pos
  IN  [i \in 1..block_size |->
         XorNat(plaintext[start_pos + i], keystream[64 - block_size + i])]

\* The bytes one pass of the loop appends: plaintext[start_pos + i] ^ keystream[i].
xor_block(plaintext, keystream, c) ==
  LET start_pos == c * 64
      end_pos == min(start_pos + 64, Len(plaintext))
      block_size == end_pos - start_pos
  IN  [i \in 1..block_size |-> XorNat(plaintext[start_pos + i], keystream[i])]

(***************************************************************************)
(* chacha20_encrypt as a function of its arguments: what a whole call      *)
(* returns or raises.  encrypt_loop is the for loop from pass c on, out    *)
(* the buffer `ciphertext` at the head of that pass.                       *)
(***************************************************************************)
RECURSIVE encrypt_loop(_, _, _, _, _, _)
encrypt_loop(key, nonce, plaintext, initial_counter, c, out) ==
  IF c >= block_count(plaintext) THEN Returned(out)
  ELSE CHOOSE r \in
         { IF keystream.raised THEN keystream
           ELSE encrypt_loop(key, nonce, plaintext, initial_counter, c + 1,
                             out \o xor_block(plaintext, keystream.value, c)) :
             keystream \in { chacha20_block(key, block_counter(c, initial_counter),
                                            nonce) } } : TRUE

chacha20_encrypt(key, nonce, plaintext, initial_counter) ==
  IF Len(plaintext) = 0 THEN Returned(<< >>)
  ELSE encrypt_loop(key, nonce, plaintext, initial_counter, 0, << >>)

\* A variant of the default of initial_counter: 0.
initial_counter_default_zero == W(0, 0)

\* def chacha20_encrypt(key, nonce, plaintext, initial_counter=1): the value
\* of initial_counter in a call that passes none.
initial_counter_default == W(0, 1)

\* The value of the parameter initial_counter in the call in progress.
InitialCounter ==
  IF "initial_counter" \in DOMAIN args THEN args.initial_counter
  ELSE initial_counter_default

\* One pass of `for counter in range(block_count)`: it prints at line 468,
\* chacha20_block prints, and when that has returned, at lines 479 and 486.
\* An exception of chacha20_block leaves the function: the buffer is lost
\* with its frame.
EncryptBlock ==
  /\ pc = "loop"
  /\ counter < block_count(args.plaintext)
  /\ \E passed \in { block_counter(counter, InitialCounter) } :
     \E keystream \in { chacha20_block(args.key, passed, args.nonce) } :
         /\ blocks' = Append(blocks, passed)
         /\ IF keystream.raised
            THEN /\ pc' = "raised"
                 /\ result' = keystream
                 /\ prints' = prints + 1 + chacha20_block_prints(keystream)
                 /\ UNCHANGED << counter, ciphertext >>
            ELSE /\ ciphertext' = ciphertext
                       \o xor_block(args.plaintext, keystream.value, counter)
                 /\ counter' = counter + 1
                 /\ prints' = prints + 1 + chacha20_block_prints(keystream) + 2
                 /\ UNCHANGED << pc, result >>
  /\ UNCHANGED << args, message, nth >>
  /\ UNCHANGED block_vars

\* The loop is over: print at line 488 and return ciphertext.
EncryptReturn ==
  /\ pc = "loop"
  /\ counter = block_count(args.plaintext)
  /\ pc' = "returned"
  /\ result' = Returned(ciphertext)
  /\ prints' = prints + 1
  /\ UNCHANGED << args, counter, ciphertext, blocks, message, nth >>
  /\ UNCHANGED block_vars

(***************************************************************************)
(* The caller's second call: the same key, nonce and initial counter, on   *)
(* the output of the first.                                                *)
(***************************************************************************)
CallAgain ==
  /\ pc = "returned"
  /\ args.op = "chacha20_encrypt"
  /\ nth = 1
  /\ nth' = 2
  /\ args' = [args EXCEPT !.plaintext = result.value]
  /\ pc' = "call"
  /\ counter' = 0
  /\ ciphertext' = << >>
  /\ result' = NoResult
  /\ blocks' = << >>
  /\ UNCHANGED << message, prints >>
  /\ UNCHANGED block_vars

Next ==
  \/ CallRotateLeft
  \/ RotateAgain
  \/ CallQuarterRound
  \/ CallInitialState
  \/ CallBlock
  \/ EncryptEnter
  \/ EncryptBlock
  \/ EncryptReturn
  \/ CallAgain

Spec == Init /\ [][Next]_vars

\* The program is sequential code that nothing suspends: a call that can
\* take its next step takes it.
FairSpec == Spec /\ WF_vars(Next)

(***************************************************************************)
(* chacha20_block run statement by statement: a second specification, in   *)
(* which a chacha20_block call is followed through its quarter_round calls *)
(* and through the 12 assignments of each.  The lists are objects of the   *)
(* heap, and the locals state, working_state and final_state refer to      *)
(* them, as in the source, where quarter_round changes the list it is      *)
(* passed.                                                                 *)
(***************************************************************************)

\* Counters of 2^32 and above: 2^32 and 2^32 + 2^16 + 7.
WideCounters == { W(Limb, 0), W(Limb + 1, 7) }

BlockStepArgs ==
  { [op |-> "chacha20_block", key |-> k, counter |-> c, nonce |-> n] :
      k \in Keys, c \in Counters \cup WideCounters, n \in Nonces }

BlockInit ==
  /\ args \in BlockStepArgs
  /\ pc = "call"
  /\ counter = 0
  /\ ciphertext = << >>
  /\ result = NoResult
  /\ blocks = << >>
  /\ message = << >>
  /\ nth = 1
  /\ prints = 0
  /\ frame = NoFrame
  /\ heap = << >>
  /\ quarter_rounds = << >>

\* A variant of BlockEnter in which working_state is the list state itself,
\* not a copy: working_state = state.
BlockEnter_alias ==
  /\ pc = "call"
  /\ args.op = "chacha20_block"
  /\ LET made == initial_state(args.key, args.counter, args.nonce)
     IN  IF made.raised
         THEN /\ pc' = "raised"
              /\ result' = made
              /\ prints' = prints + 1
              /\ UNCHANGED << frame, heap >>
         ELSE /\ heap' = [ref \in {1} |-> made.value]
              /\ frame' = [frame EXCEPT !.state = 1, !.working_state = 1,
                                        !.round_num = 0, !.call = 1]
              /\ pc' = "rounds"
              /\ prints' = prints + 3
              /\ UNCHANGED result
  /\ UNCHANGED << args, counter, ciphertext, blocks, message, nth, quarter_rounds >>

\* Lines 350-358: print, state = initial_state(key, counter, nonce) (list 1,
\* unless initial_state raises), working_state = state.copy() (list 2, a
\* new list with the same words), print; the loop starts with round_num 0.
BlockEnter ==
  /\ pc = "call"
  /\ args.op = "chacha20_block"
  /\ LET made == initial_state(args.key, args.counter, args.nonce)
     IN  IF made.raised
         THEN /\ pc' = "raised"
              /\ result' = made
              /\ prints' = prints + 1
              /\ UNCHANGED << frame, heap >>
         ELSE /\ heap' = [ref \in {1, 2} |-> made.value]
              /\ frame' = [frame EXCEPT !.state = 1, !.working_state = 2,
                                        !.round_num = 0, !.call = 1]
              /\ pc' = "rounds"
              /\ prints' = prints + 3
              /\ UNCHANGED result
  /\ UNCHANGED << args, counter, ciphertext, blocks, message, nth, quarter_rounds >>

\* Lines 365-375: the index arguments of the eight quarter_round calls of
\* one pass of the loop, in the order of the calls.
double_round_calls ==
  << << 0, 4, 8, 12 >>, << 1, 5, 9, 13 >>, << 2, 6, 10, 14 >>, << 3, 7, 11, 15 >>,
     << 0, 5, 10, 15 >>, << 1, 6, 11, 12 >>, << 2, 7, 8, 13 >>, << 3, 4, 9, 14 >> >>

\* The next quarter_round(working_state, a, b, c, d) call of the pass is
\* made: the callee's parameter is bound to the list working_state refers to.
QuarterRoundCall ==
  /\ pc = "rounds"
  /\ frame.round_num < DoubleRounds
  /\ LET ix == double_round_calls[frame.call]
     IN  /\ frame' = [frame EXCEPT !.list = frame.working_state,
                                   !.a = ix[1], !.b = ix[2], !.c = ix[3],
                                   !.d = ix[4], !.line = 1]
         /\ quarter_rounds' = Append(quarter_rounds, ix)
  /\ pc' = "quarter_round"
  /\ UNCHANGED << args, counter, ciphertext, result, blocks, message, nth,
                  prints, heap >>

\* A variant of add_line that keeps the whole sum:
\* state[x] = state[x] + state[y].
add_line_unmasked(list, x, y) == [list EXCEPT ![x] = Add(list[x], list[y])]

\* state[x] = (state[x] + state[y]) & 0xFFFFFFFF
add_line(list, x, y) == add_step(list, x, y)

\* Assignment number line (1..12) of quarter_round, lines 137-156 of the
\* source, on the list.
assignment(list, line, a, b, c, d) ==
  CASE line = 1 -> add_line(list, a, b)
    [] line = 2 -> xor_step(list, d, a)
    [] line = 3 -> rotate_step(list, d, 16)
    [] line = 4 -> add_line(list, c, d)
    [] line = 5 -> xor_step(list, b, c)
    [] line = 6 -> rotate_step(list, b, 12)
    [] line = 7 -> add_line(list, a, b)
    [] line = 8 -> xor_step(list, d, a)
    [] line = 9 -> rotate_step(list, d, 8)
    [] line = 10 -> add_line(list, c, d)
    [] line = 11 -> xor_step(list, b, c)
    [] OTHER -> rotate_step(list, b, 7)

\* print() calls at the end of a pass of the loop: one when round_num is even.
pass_prints(round_num) == IF round_num % 2 = 0 THEN 1 ELSE 0

\* One assignment of the quarter_round call in progress.  After the last
\* one the call returns: to the next call of the pass, or, after the
\* eighth, to the end of the pass (lines 378-379) and the head of the loop.
QuarterRoundAssign ==
  /\ pc = "quarter_round"
  /\ heap' = [heap EXCEPT ![frame.list] =
                 assignment(heap[frame.list], frame.line,
                            frame.a, frame.b, frame.c, frame.d)]
  /\ IF frame.line < 12
     THEN /\ frame' = [frame EXCEPT !.line = frame.line + 1]
          /\ UNCHANGED << pc, prints >>
     ELSE /\ pc' = "rounds"
          /\ IF frame.call < 8
             THEN /\ frame' = [frame EXCEPT !.call = frame.call + 1]
                  /\ UNCHANGED prints
             ELSE /\ frame' = [frame EXCEPT !.call = 1,
                                           !.round_num = frame.round_num + 1]
                  /\ prints' = prints + pass_prints(frame.round_num)
  /\ UNCHANGED << args, counter, ciphertext, result, blocks, message, nth,
                  quarter_rounds >>

\* A variant of feed_forward that returns the words of working_state as
\* they are after the rounds.
feed_forward_none(working, original) == working

\* A variant of feed_forward that adds without the mask.
feed_forward_unmasked(working, original) ==
  [i \in 0..15 |-> Add(working[i], original[i])]

\* [(working_state[i] + state[i]) & 0xFFFFFFFF for i in range(16)]
feed_forward(working, original) ==
  [i \in 0..15 |-> And32(Add(working[i], original[i]))]

\* Line 383, after the last pass of the loop: final_state is a new list
\* (list 3).
FeedForward ==
  /\ pc = "rounds"
  /\ frame.round_num = DoubleRounds
  /\ heap' = [ref \in DOMAIN heap \cup {3} |->
                IF ref = 3
                THEN feed_forward(heap[frame.working_state], heap[frame.state])
                ELSE heap[ref]]
  /\ frame' = [frame EXCEPT !.final_state = 3]
  /\ pc' = "pack"
  /\ UNCHANGED << args, counter, ciphertext, result, blocks, message, nth,
                  prints, quarter_rounds >>

\* Lines 387-390: keystream = struct.pack('<16I', *final_state), print,
\* return keystream.
BlockPack ==
  /\ pc = "pack"
  /\ result' = pack(heap[frame.final_state])
  /\ IF result'.raised
     THEN pc' = "raised" /\ UNCHANGED prints
     ELSE pc' = "returned" /\ prints' = prints + 1
  /\ UNCHANGED << args, counter, ciphertext, blocks, message, nth, frame, heap,
                  quarter_rounds >>

BlockNext ==
  \/ BlockEnter
  \/ QuarterRoundCall
  \/ QuarterRoundAssign
  \/ FeedForward
  \/ BlockPack

BlockSpec == BlockInit /\ [][BlockNext]_vars

(***************************************************************************)
(* The passes of the loop of chacha20_encrypt run in any order and         *)
(* interleaved: a third specification.  The pass for loop value c is a     *)
(* worker with its own frame, frame[c]; the list objects of all workers    *)
(* are in the one heap.  A worker steps through its chacha20_block call    *)
(* (the lists made at lines 353 and 356, one pass of the round loop at a   *)
(* time, then lines 383-387) and XORs the keystream into its own slice of  *)
(* the plaintext; the output is put together in the order of c once every  *)
(* worker is done.  The statements inside one pass of the round loop touch *)
(* one list only, the worker's working_state, so a pass is one step.       *)
(***************************************************************************)
MaxWorkers == 2   \* the number of blocks of a text of this specification

\* Two calls: a text whose last block is one byte, from counter 1, and a
\* text of whole blocks, from counter 2^32 - 1.
ParallelArgs ==
  { [op |-> "chacha20_encrypt", key |-> Bytes(KeyBytes, 0), nonce |-> RfcNonce,
     plaintext |-> Bytes(((MaxWorkers - 1) * BlockBytes) + 1, 1),
     initial_counter |-> W(0, 1)],
    [op |-> "chacha20_encrypt", key |-> Bytes(KeyBytes, 0), nonce |-> RfcNonce,
     plaintext |-> Bytes(MaxWorkers * BlockBytes, 1),
     initial_counter |-> W(Limb - 1, Limb - 1)] }

\* The frame of a worker that has not started.
NoWorker == [line |-> "start", state |-> 0, working_state |-> 0,
             round_num |-> 0, block |-> << >>]

ParallelInit ==
  /\ args \in ParallelArgs
  /\ pc = "blocks"
  /\ counter = 0
  /\ ciphertext = << >>
  /\ result = NoResult
  /\ blocks = << >>
  /\ message = args.plaintext
  /\ nth = 1
  /\ prints = 0
  /\ frame = [c \in 0..(block_count(args.plaintext) - 1) |-> NoWorker]
  /\ heap = << >>
  /\ quarter_rounds = << >>

\* A variant of copy_ref: one working list, the second object of the heap,
\* that every chacha20_block call uses for its working_state.
copy_ref_shared(objects) == 2

\* working_state = state.copy(): the reference of the new list, the object
\* after the list that initial_state has just made.
copy_ref(objects) == Len(objects) + 2

\* Lines 470, 353, 356: the worker calls chacha20_block with counter c +
\* initial_counter; state is a new list, working_state a new list with the
\* same words.
WorkerEnter(c) ==
  /\ pc = "blocks"
  /\ frame[c].line = "start"
  /\ \E passed \in { block_counter(c, InitialCounter) } :
     \E made \in { initial_state(args.key, passed, args.nonce) } :
     \E copy \in { copy_ref(heap) } :
       /\ ~made.raised
       /\ heap' = [ref \in 1..(Len(heap) + 2) |->
                     IF ref = copy \/ ref > Len(heap) THEN made.value
                     ELSE heap[ref]]
       /\ frame' = [frame EXCEPT ![c] = [@ EXCEPT !.line = "rounds",
                                                    !.state = Len(heap) + 1,
                                                    !.working_state = copy]]
       /\ blocks' = Append(blocks, passed)
  /\ UNCHANGED << args, pc, counter, ciphertext, result, message, nth, prints,
                  quarter_rounds >>

\* Lines 361-375: one pass of `for round_num in range(10)` of the worker's
\* chacha20_block call, on its working_state.
WorkerRound(c) ==
  /\ pc = "blocks"
  /\ frame[c].line = "rounds"
  /\ frame[c].round_num < DoubleRounds
  /\ heap' = [heap EXCEPT ![frame[c].working_state] = double_round(@)]
  /\ frame' = [frame EXCEPT ![c] = [@ EXCEPT !.round_num = @ + 1]]
  /\ UNCHANGED << args, pc, counter, ciphertext, result, blocks, message, nth,
                  prints, quarter_rounds >>

\* Lines 383-390 and 474-484: the feed-forward, the keystream, and the XOR
\* of the keystream into the worker's slice of the plaintext.
WorkerFinish(c) ==
  /\ pc = "blocks"
  /\ frame[c].line = "rounds"
  /\ frame[c].round_num = DoubleRounds
  /\ \E keystream \in { pack(feed_forward(heap[frame[c].working_state],
                                           heap[frame[c].state])) } :
       /\ ~keystream.raised
       /\ frame' = [frame EXCEPT ![c] =
                      [@ EXCEPT !.line = "done",
                                !.block = xor_block(args.plaintext,
                                                    keystream.value, c)]]
  /\ UNCHANGED << args, pc, counter, ciphertext, result, blocks, message, nth,
                  prints, heap, quarter_rounds >>

\* The blocks of workers 0 .. n - 1, one after the other.
RECURSIVE in_block_order(_, _)
in_block_order(workers, n) ==
  IF n = 0 THEN << >>
  ELSE in_block_order(workers, n - 1) \o workers[n - 1].block

\* Line 489: every worker is done; the output is the blocks in the order of
\* their loop values.
WorkersJoin ==
  /\ pc = "blocks"
  /\ \A c \in DOMAIN frame : frame[c].line = "done"
  /\ ciphertext' = in_block_order(frame, block_count(args.plaintext))
  /\ result' = Returned(ciphertext')
  /\ pc' = "returned"
  /\ UNCHANGED << args, counter, blocks, message, nth, prints, frame, heap,
                  quarter_rounds >>

ParallelNext ==
  \/ \E c \in DOMAIN frame : WorkerEnter(c)
  \/ \E c \in DOMAIN frame : WorkerRound(c)
  \/ \E c \in DOMAIN frame : WorkerFinish(c)
  \/ WorkersJoin

ParallelSpec == ParallelInit /\ [][ParallelNext]_vars

(***************************************************************************)
(* Properties of chacha20_encrypt, initial_state and chacha20_block.       *)
(***************************************************************************)

\* The call in progress is a chacha20_encrypt call.
IsEncrypt == args.op = "chacha20_encrypt"

\* The key is not 32 bytes long, or the nonce is not 12 bytes long.
BadLengths == Len(args.key) # 32 \/ Len(args.nonce) # 12

\* C1: involution.  When the second call of the round trip (the same key,
\* nonce and initial counter, on the output of the first call) has returned,
\* its output is the text the first call was given.
C1_Involution ==
  (IsEncrypt /\ nth = 2 /\ pc = "returned") => result.value = message

\* The round trip of a 129-byte text (two whole blocks and one byte) is
\* over, and the text the second call was given was not the message itself.
C1_Witness ==
  /\ IsEncrypt /\ nth = 2 /\ pc = "returned"
  /\ Len(message) = 129
  /\ args.plaintext # message
  /\ result.value = message

\* C2: every byte of the output is the byte of the input at its position
\* XOR byte (j mod 64) of the keystream block chacha20_block returns for the
\* counter of block floor(j / 64); the output has no other byte, so that of
\* the keystream of a partial last block only the first n mod 64 bytes
\* reach the output.  (j counts from 0 in the source, from 1 here.)
C2_BytewiseXor ==
  (IsEncrypt /\ pc = "returned" /\ Len(args.plaintext) > 0) =>
    /\ Len(blocks) = (Len(args.plaintext) + 63) \div 64
    /\ \A b \in 1..Len(blocks) :
         \A keystream \in {chacha20_block(args.key, blocks[b], args.nonce)} :
           \A j \in 1..Len(result.value) :
             ((j - 1) \div 64) + 1 = b =>
               result.value[j] =
                 XorNat(args.plaintext[j], keystream.value[((j - 1) % 64) + 1])

\* A 65-byte input has returned: its last block is one byte long.
C2_Witness ==
  /\ IsEncrypt /\ pc = "returned" /\ nth = 1
  /\ Len(args.plaintext) = 65
  /\ Len(result.value) = 65
  /\ Len(blocks) = 2

\* C3: the output of chacha20_encrypt is as long as its input; the output
\* of an empty input is empty.
C3_LengthPreserved ==
  (IsEncrypt /\ pc = "returned") =>
    /\ Len(result.value) = Len(args.plaintext)
    /\ (args.plaintext = << >> => result.value = << >>)

\* A call on 127 bytes (one whole block and a partial one) has returned
\* 127 bytes.
C3_Witness ==
  /\ IsEncrypt /\ pc = "returned"
  /\ Len(args.plaintext) = 127
  /\ Len(result.value) = 127

\* C4: the counter chacha20_encrypt passes to chacha20_block for block
\* index i is (initial_counter + i) mod 2^32, a value in [0, 2^32).
\* (blocks[i] is the counter of block index i - 1.)
C4_CounterWraps ==
  IsEncrypt =>
    \A i \in 1..Len(blocks) :
      /\ IsU32(blocks[i])
      /\ blocks[i] = And32(Add(PyInt(i - 1), InitialCounter))

\* C5: a chacha20_encrypt call on an empty input returns the empty byte
\* sequence from before the loop: it is never in the loop, and it calls
\* chacha20_block (and with it initial_state) not once.
C5_EmptyShortCircuit ==
  (IsEncrypt /\ args.plaintext = << >>) =>
    /\ pc \in {"call", "returned"}
    /\ blocks = << >>
    /\ (pc = "returned" => result = Returned(<< >>))

\* A call on the empty input with a valid key and nonce has returned.
C5_Witness ==
  /\ IsEncrypt /\ args.plaintext = << >> /\ pc = "returned"
  /\ ~BadLengths
  /\ result.value = << >>

\* The key of a call as 8 little-endian words and its nonce as 3, each word
\* b0 + 2^8 b1 + 2^16 b2 + 2^24 b3 of its four bytes b0 b1 b2 b3.
LittleEndianWord(buf, k) ==
  W(buf[4 * k + 3] + 256 * buf[4 * k + 4], buf[4 * k + 1] + 256 * buf[4 * k + 2])

C7_StateWords32Bit ==
  /\ (args.op = "initial_state" /\ pc = "returned") =>
       /\ DOMAIN result.value = 0..15
       /\ \A w \in 0..15 : IsU32(result.value[w])
  /\ IsEncrypt =>
       \A i \in 1..Len(blocks) :
         \A state \in {initial_state(args.key, blocks[i], args.nonce)} :
           ~state.raised =>
             /\ DOMAIN state.value = 0..15
             /\ \A w \in 0..15 : IsU32(state.value[w])

\* C8: initial_state and chacha20_block raise, and return nothing, exactly
\* when the key is not 32 bytes or the nonce not 12 bytes long, shorter or
\* longer; with the right lengths they return.
C8_LengthErrors ==
  (args.op \in {"initial_state", "chacha20_block"} /\ pc # "call") =>
    /\ pc = "raised" <=> BadLengths
    /\ result.raised <=> BadLengths
    /\ result.raised => result.value = "struct.error"

\* chacha20_block has raised for a key of 33 bytes and a nonce of 12.
C8_Witness ==
  /\ args.op = "chacha20_block" /\ pc = "raised"
  /\ Len(args.key) = 33 /\ Len(args.nonce) = 12
  /\ result = Raised("struct.error")

\* C9: a chacha20_encrypt call whose key is not 32 bytes or whose nonce is
\* not 12 bytes long never returns an output, whatever its input, the empty
\* one included.
C9_EncryptLengthErrors ==
  (IsEncrypt /\ BadLengths) => pc # "returned"

\* C10: a chacha20_encrypt call that fails has produced no output byte: it
\* fails in the first pass of the loop, with an empty buffer, never at a
\* block index above 0; a call that does not fail returns an output of the
\* length of its input.
C10_NoPartialFailure ==
  IsEncrypt =>
    /\ pc = "raised" =>
         /\ counter = 0
         /\ ciphertext = << >>
         /\ Len(blocks) = 1
    /\ pc = "returned" => Len(result.value) = Len(args.plaintext)
    /\ pc = "loop" => ~BadLengths \/ ciphertext = << >>

\* A call on a 129-byte input with a nonce of 11 bytes has raised.
C10_Witness ==
  /\ IsEncrypt /\ pc = "raised"
  /\ Len(args.plaintext) = 129
  /\ Len(args.nonce) = 11
  /\ ciphertext = << >>

(***************************************************************************)
(* Properties of quarter_round and rotate_left.  The arithmetic of the     *)
(* statements is defined here on its own: addition modulo 2^32 and the      *)
(* rotation of a 32-bit word by one bit position, repeated.                *)
(***************************************************************************)

\* (x + y) mod 2^32 of two 32-bit words.
AddMod32(x, y) == W((x.hi + y.hi + ((x.lo + y.lo) \div Limb)) % Limb,
                    (x.lo + y.lo) % Limb)

\* A 32-bit word rotated left by one bit position: every bit moves up one
\* place and bit 31 moves to place 0.
Rotl1(x) == W(((2 * x.hi) % Limb) + (x.lo \div (Limb \div 2)),
              ((2 * x.lo) % Limb) + (x.hi \div (Limb \div 2)))

\* A 32-bit word rotated left by n bit positions, n >= 0: by one position,
\* n times (y is the word after the first of them).
RECURSIVE Rotl(_, _)
Rotl(x, n) ==
  IF n = 0 THEN x
  ELSE CHOOSE r \in { Rotl(y, n - 1) : y \in {Rotl1(x)} } : TRUE

\* a += b; d ^= a; d <<<= r1; c += d; b ^= c; b <<<= r2 on the four words
\* q = << a, b, c, d >>.
\* (The words are bound one after the other, each as the one element of a
\* set, so that each is computed once, when the statement is reached.)
HalfQuarterRound(q, r1, r2) ==
  CHOOSE r \in
    UNION { UNION { UNION { UNION { { << a, b, c, d >> :
                    b \in {Rotl(Xor(p[2], c), r2)} } :
                  c \in {AddMod32(p[3], d)} } :
                d \in {Rotl(Xor(p[4], a), r1)} } :
              a \in {AddMod32(p[1], p[2])} } :
            p \in {q} } : TRUE

\* The calls of quarter_round that have returned.
QuarterRoundReturned == args.op = "quarter_round" /\ pc = "returned"

\* C11: after quarter_round(state, a, b, c, d) on a 16-word state of 32-bit
\* words and four distinct indices, state[a], state[b], state[c], state[d]
\* are the result of a += b; d ^= a; d <<<= 16; c += d; b ^= c; b <<<= 12;
\* a += b; d ^= a; d <<<= 8; c += d; b ^= c; b <<<= 7 on the four words
\* the state held when the call was made, with additions modulo 2^32; on
\* the state of the vector of RFC 8439 with indices (2, 7, 8, 13) they are
\* 0xbdb886dc, 0xcfacafd2, 0xe46bea80, 0xccc07c79.
C11_QuarterRoundResult ==
  QuarterRoundReturned =>
    /\ \A q \in { HalfQuarterRound(HalfQuarterRound(
                     << message[args.a], message[args.b],
                        message[args.c], message[args.d] >>, 16, 12), 8, 7) } :
         /\ args.state[args.a] = q[1]
         /\ args.state[args.b] = q[2]
         /\ args.state[args.c] = q[3]
         /\ args.state[args.d] = q[4]
    /\ (/\ message = RfcQuarterRoundState
        /\ << args.a, args.b, args.c, args.d >> = << 2, 7, 8, 13 >>)
       => /\ args.state[2] = W(48568, 34524)
          /\ args.state[7] = W(53164, 45010)
          /\ args.state[8] = W(58475, 60032)
          /\ args.state[13] = W(52416, 31865)

\* quarter_round(state, 2, 7, 8, 13) has returned on the state of the vector
\* of RFC 8439, and word 2 of the list is 0xbdb886dc.
C11_Witness ==
  /\ QuarterRoundReturned
  /\ message = RfcQuarterRoundState
  /\ << args.a, args.b, args.c, args.d >> = << 2, 7, 8, 13 >>
  /\ args.state[2] = W(48568, 34524)
  /\ args.state # message

(***************************************************************************)
(* The block function of RFC 8439, section 2.3, written from the RFC with  *)
(* the arithmetic above: the reference of the statements about             *)
(* chacha20_block and chacha20_encrypt.                                    *)
(***************************************************************************)

\* QUARTERROUND(a, b, c, d) of the RFC on a 16-word state.
RfcQuarterRound(s, a, b, c, d) ==
  CHOOSE r \in
    UNION { { [t EXCEPT ![a] = q[1], ![b] = q[2], ![c] = q[3], ![d] = q[4]] :
                q \in { HalfQuarterRound(HalfQuarterRound(
                          << t[a], t[b], t[c], t[d] >>, 16, 12), 8, 7) } } :
            t \in {s} } : TRUE

\* inner_block of the RFC: four column rounds, then four diagonal rounds.
RfcInnerBlock(s) ==
  RfcQuarterRound(RfcQuarterRound(RfcQuarterRound(RfcQuarterRound(
  RfcQuarterRound(RfcQuarterRound(RfcQuarterRound(RfcQuarterRound(s,
    0, 4, 8, 12), 1, 5, 9, 13), 2, 6, 10, 14), 3, 7, 11, 15),
    0, 5, 10, 15), 1, 6, 11, 12), 2, 7, 8, 13), 3, 4, 9, 14)

\* inner_block applied n times.
RECURSIVE RfcRounds(_, _)
RfcRounds(s, n) ==
  IF n = 0 THEN s
  ELSE CHOOSE r \in { RfcInnerBlock(t) : t \in {RfcRounds(s, n - 1)} } : TRUE

\* The state of the RFC: the constants "expa" "nd 3" "2-by" "te k", the key
\* as 8 little-endian words, the counter, the nonce as 3 little-endian words.
RfcState(key, count, nonce) ==
  [i \in 0..15 |->
     CASE i = 0 -> W(24944, 30821)
       [] i = 1 -> W(13088, 25710)
       [] i = 2 -> W(31074, 11570)
       [] i = 3 -> W(27424, 25972)
       [] i \in 4..11 -> LittleEndianWord(key, i - 4)
       [] i = 12 -> count
       [] OTHER -> LittleEndianWord(nonce, i - 13)]

\* Byte k (0..3, least significant first) of a 32-bit word.
WordByte(x, k) ==
  CASE k = 0 -> x.lo % 256
    [] k = 1 -> x.lo \div 256
    [] k = 2 -> x.hi % 256
    [] OTHER -> x.hi \div 256

\* chacha20_block of the RFC: 10 times inner_block (20 rounds), the state
\* added to the result word by word modulo 2^32, the 16 words serialized
\* little-endian.
RfcBlock(key, count, nonce) ==
  CHOOSE block \in
    UNION { { [j \in 1..64 |->
                 WordByte(AddMod32(st[(j - 1) \div 4], ws[(j - 1) \div 4]),
                          (j - 1) % 4)] :
                ws \in {RfcRounds(st, 10)} } :
            st \in {RfcState(key, count, nonce)} } : TRUE

\* The block test_chacha20_block expects: 10 f1 e7 e4 ... a2 50 3c 4e.
TestBlock ==
  << 16, 241, 231, 228, 209, 59, 89, 21, 80, 15, 221, 31, 163, 32, 113, 196,
     199, 209, 244, 199, 51, 192, 104, 3, 4, 34, 170, 154, 195, 212, 108, 78,
     210, 130, 100, 70, 7, 159, 170, 9, 20, 194, 215, 5, 217, 139, 2, 162,
     181, 18, 156, 209, 222, 22, 78, 185, 203, 208, 131, 232, 162, 80, 60, 78 >>

\* C12: for every 32-byte key, 12-byte nonce and 32-bit counter,
\* chacha20_block returns the 64-byte block of RFC 8439 (initial state, 20
\* rounds, feed-forward, little-endian serialization); for the key 00 .. 1f,
\* the nonce 00 00 00 00 00 00 00 4a 00 00 00 00 and counter 1 it returns
\* 10 f1 e7 e4 ... a2 50 3c 4e, the block the test expects.
C12_BlockReference ==
  (args.op = "chacha20_block" /\ pc = "returned" /\ IsU32(args.counter)) =>
    /\ result.value = RfcBlock(args.key, args.counter, args.nonce)
    /\ (/\ args.key = Bytes(32, 0)
        /\ args.nonce = RfcNonce
        /\ args.counter = W(0, 1))
       => result.value = TestBlock

\* The ciphertext of SunscreenText of RFC 8439, section 2.4.2; its first 64
\* bytes, 6e 2e 35 9a ... 9f 08 61 d8, are those test_chacha20_encryption
\* expects.
SunscreenCiphertext ==
  << 110, 46, 53, 154, 37, 104, 249, 128, 65, 186, 7, 40, 221, 13, 105, 129,
     233, 126, 122, 236, 29, 67, 96, 194, 10, 39, 175, 204, 253, 159, 174, 11,
     249, 27, 101, 197, 82, 71, 51, 171, 143, 89, 61, 171, 205, 98, 179, 87,
     22, 57, 214, 36, 230, 81, 82, 171, 143, 83, 12, 53, 159, 8, 97, 216,
     7, 202, 13, 191, 80, 13, 106, 97, 86, 163, 142, 8, 138, 34, 182, 94,
     82, 188, 81, 77, 22, 204, 248, 6, 129, 140, 233, 26, 183, 121, 55, 54,
     90, 249, 11, 191, 116, 163, 91, 230, 180, 11, 142, 237, 242, 120, 94, 66,
     135, 77 >>

\* A returned chacha20_encrypt call that was passed initial_counter = 1.
ReturnedFromCounter1 ==
  /\ IsEncrypt /\ pc = "returned"
  /\ "initial_counter" \in DOMAIN args
  /\ args.initial_counter = W(0, 1)

\* C13: chacha20_encrypt with initial_counter = 1 returns the ciphertext of
\* RFC 8439: byte j of the input XOR byte (j mod 64) of the RFC's block for
\* counter 1 + floor(j / 64).  For the key 00 .. 1f, the nonce
\* 00 00 00 00 00 00 00 4a 00 00 00 00 and the 114-byte plaintext "Ladies
\* and Gentlemen ..." the first 64 output bytes are 6e 2e 35 9a ...
\* 9f 08 61 d8, the bytes after them are produced with counter 2, and the
\* output is the ciphertext the RFC lists.  (j counts from 0 in the
\* statement, from 1 in the formula.)
C13_EncryptReference ==
  ReturnedFromCounter1 =>
    /\ \A b \in 1..((Len(args.plaintext) + 63) \div 64) :
         \A ks \in {RfcBlock(args.key, W(0, b), args.nonce)} :
           \A j \in 1..Len(result.value) :
             ((j - 1) \div 64) + 1 = b =>
               result.value[j] = XorNat(args.plaintext[j], ks[((j - 1) % 64) + 1])
    /\ (args.key = Bytes(32, 0) /\ args.nonce = RfcNonce
          /\ args.plaintext = SunscreenText)
       => /\ SubSeq(result.value, 1, 64) = SubSeq(SunscreenCiphertext, 1, 64)
          /\ blocks = << W(0, 1), W(0, 2) >>
          /\ result.value = SunscreenCiphertext

\* The call on the 114-byte plaintext with the key and nonce of the RFC and
\* initial_counter = 1 has returned 114 bytes, the second block's counter
\* being 2.
C13_Witness ==
  /\ ReturnedFromCounter1 /\ nth = 1
  /\ args.key = Bytes(32, 0) /\ args.nonce = RfcNonce
  /\ args.plaintext = SunscreenText
  /\ Len(result.value) = 114
  /\ blocks[2] = W(0, 2)

\* C15: a call of initial_state, chacha20_block or chacha20_encrypt changes
\* nothing observable but its return value: it writes nothing to standard
\* output, and its key, nonce and input arguments are, at every point of
\* the call, what the caller passed.
C15_NoSideEffects ==
  [][(args.op \in {"initial_state", "chacha20_block", "chacha20_encrypt"}
        /\ ~CallAgain)
       => (prints' = prints /\ args' = args)]_vars

\* The calls of rotate_left that have returned.
RotateReturned == args.op = "rotate_left" /\ pc = "returned"

\* C16: for every 32-bit value x and every shift s, rotate_left(x, s) is x
\* rotated left circularly by s mod 32 bit positions within 32 bits;
\* rotate_left(x, 0) = x and rotate_left(x, 32) = x; the result lies in
\* [0, 2^32), and no call raises.
C16_RotationCorrect ==
  /\ args.op = "rotate_left" => pc \in {"call", "returned"}
  /\ RotateReturned =>
       /\ ~result.raised
       /\ IsU32(result.value)
       /\ IsU32(args.value) =>
            /\ result.value = Rotl(args.value, args.shift % 32)
            /\ (args.shift \in {0, 32} => result.value = args.value)

\* rotate_left(0x80000000, 33) has returned 1: the shift is taken modulo 32
\* and the top bit has moved to place 0.
C16_Witness ==
  /\ RotateReturned
  /\ args.value = W(32768, 0)
  /\ args.shift = 33
  /\ result.value = W(0, 1)

\* The second of the caller's two rotate_left calls has returned: the first
\* rotated the 32-bit value message.value by message.shift, the second its
\* result by args.shift.
RotatedTwice ==
  /\ RotateReturned /\ nth = 2
  /\ IsU32(message.value)

\* C17: for every 32-bit x and shifts a, b in [0, 31],
\* rotate_left(rotate_left(x, a), b) = rotate_left(x, (a + b) mod 32).
C17_RotationComposition ==
  (RotatedTwice /\ message.shift \in 0..31 /\ args.shift \in 0..31) =>
    result.value = rotate_left(message.value, (message.shift + args.shift) % 32)

\* 0x12345678 rotated by 24 and then by 16 (a + b = 40, above 31) is
\* 0x34567812, the value rotated by 8.
C17_Witness ==
  /\ RotatedTwice
  /\ message.value = W(4660, 22136)
  /\ message.shift = 24
  /\ args.shift = 16
  /\ result.value = W(13398, 30738)

\* C18: for every fixed shift s, rotate_left(., s) is a bijection on the
\* 32-bit values: rotate_left(., (32 - s) mod 32) undoes it, and two
\* distinct 32-bit values never rotate to the same result.
C18_RotationBijection ==
  /\ (RotatedTwice /\ args.shift = (32 - (message.shift % 32)) % 32) =>
       result.value = message.value
  /\ (RotateReturned /\ nth = 1 /\ IsU32(args.value)) =>
       \A y \in Values :
         (IsU32(y) /\ y # args.value) =>
           rotate_left(y, args.shift) # result.value

\* 0x01020304 rotated by 7 and then by 25 is 0x01020304 again, and was not
\* in between.
C18_Witness ==
  /\ RotatedTwice
  /\ message.value = W(258, 772)
  /\ message.shift = 7
  /\ args.shift = 25
  /\ args.value # message.value
  /\ result.value = message.value

(***************************************************************************)
(* Properties that compare two chacha20_encrypt calls.                     *)
(***************************************************************************)

\* The number of leading bytes two texts have in common.
CommonPrefix(p, q) ==
  LET differ == { k \in 1..min(Len(p), Len(q)) : p[k] # q[k] }
  IN  IF differ = {} THEN min(Len(p), Len(q))
      ELSE (CHOOSE k \in differ : \A j \in differ : k <= j) - 1

\* A text with its last byte changed.
ChangeLast(p) == [p EXCEPT ![Len(p)] = (p[Len(p)] + 1) % 256]

\* The inputs Q a returned call on P is compared with: P with its last byte
\* changed, and the longer texts that begin with the first byte of P.
Others(p) ==
  IF p = << >> THEN {}
  ELSE { ChangeLast(p) }
       \cup { q \in Texts : Len(q) > Len(p) /\ q[1] = p[1] }

\* C19: for the same key, nonce and initial_counter, the outputs of
\* chacha20_encrypt for two inputs P and Q that agree on their first m
\* bytes (their lengths may differ) agree on their first m bytes: output
\* byte j does not depend on the input bytes at positions other than j.
C19_PrefixStability ==
  (IsEncrypt /\ pc = "returned" /\ nth = 1) =>
    \A q \in Others(args.plaintext) :
      \A m \in {CommonPrefix(args.plaintext, q)} :
        \A other \in {chacha20_encrypt(args.key, args.nonce, q, InitialCounter)} :
          /\ ~other.raised
          /\ SubSeq(other.value, 1, m) = SubSeq(result.value, 1, m)

\* A call on 65 bytes has returned; a text of 127 bytes begins with the
\* same 65 bytes, and the keystream of its second block is used up to
\* byte 63 where this call used one byte.
C19_Witness ==
  /\ IsEncrypt /\ pc = "returned" /\ nth = 1
  /\ Len(args.plaintext) = 65
  /\ \E q \in Others(args.plaintext) :
       /\ Len(q) = 127
       /\ CommonPrefix(args.plaintext, q) = 65
  /\ CommonPrefix(args.plaintext, ChangeLast(args.plaintext)) = 64

\* The call in progress is a chacha20_encrypt call that passes no
\* initial_counter.
OmitsInitialCounter == IsEncrypt /\ "initial_counter" \notin DOMAIN args

\* C20: a chacha20_encrypt call that omits initial_counter returns, for
\* every key, nonce and input, what the same call with initial_counter = 1
\* returns (and raises what that call raises).
C20_DefaultCounter ==
  (OmitsInitialCounter /\ pc \in {"returned", "raised"}) =>
    result = chacha20_encrypt(args.key, args.nonce, args.plaintext, W(0, 1))

\* A call without initial_counter on 129 bytes has returned 129 bytes; the
\* counter of its first block was 1.
C20_Witness ==
  /\ OmitsInitialCounter /\ pc = "returned" /\ nth = 1
  /\ Len(args.plaintext) = 129
  /\ Len(result.value) = 129
  /\ blocks[1] = W(0, 1)

(***************************************************************************)
(* Properties of chacha20_block run statement by statement (BlockSpec).    *)
(***************************************************************************)

\* The four column rounds and the four diagonal rounds, in their order.
ColumnRounds ==
  << << 0, 4, 8, 12 >>, << 1, 5, 9, 13 >>, << 2, 6, 10, 14 >>, << 3, 7, 11, 15 >> >>
DiagonalRounds ==
  << << 0, 5, 10, 15 >>, << 1, 6, 11, 12 >>, << 2, 7, 8, 13 >>, << 3, 4, 9, 14 >> >>

\* The quarter-rounds made so far follow the schedule: call number k of a
\* double round (0..7) is column round k for k < 4, diagonal round k - 4
\* otherwise, so that no diagonal round runs before the four column rounds
\* of its double round.
FollowsSchedule ==
  \A k \in 1..Len(quarter_rounds) :
    quarter_rounds[k] = IF (k - 1) % 8 < 4
                        THEN ColumnRounds[((k - 1) % 8) + 1]
                        ELSE DiagonalRounds[((k - 1) % 8) - 3]

\* The rounds of the chacha20_block call are over.
RoundsDone == pc \in {"pack", "returned"}

\* C21: one chacha20_block call applies exactly 160 quarter-rounds to the
\* working state, as 10 double rounds, each the column quarter-rounds
\* (0,4,8,12), (1,5,9,13), (2,6,10,14), (3,7,11,15) followed by the
\* diagonal quarter-rounds (0,5,10,15), (1,6,11,12), (2,7,8,13), (3,4,9,14),
\* in that order; no diagonal round of a double round runs before its four
\* column rounds.
C21_RoundSchedule ==
  /\ FollowsSchedule
  /\ RoundsDone => Len(quarter_rounds) = 160

\* What the code does: 10 double rounds of 8 quarter-rounds in the order of
\* the schedule, 80 quarter-rounds in a call, never more.
EightyQuarterRounds ==
  /\ FollowsSchedule
  /\ Len(quarter_rounds) <= 80
  /\ RoundsDone => Len(quarter_rounds) = 80
  /\ pc = "rounds" => Len(quarter_rounds) = 8 * frame.round_num + (frame.call - 1)

\* The lists the locals of chacha20_block refer to.
StateList == heap[frame.state]
WorkingList == heap[frame.working_state]
FinalList == heap[frame.final_state]

\* C22: inside chacha20_block the initial state S is never modified by a
\* quarter-round: only the separate working copy W is changed, so that at
\* every point from the copy to the feed-forward step and the return, S is
\* the value initial_state returned.
C22_OriginalPreserved ==
  frame.state # 0 =>
    /\ frame.working_state # frame.state
    /\ Returned(StateList) = initial_state(args.key, args.counter, args.nonce)
    /\ pc = "quarter_round" => frame.list = frame.working_state

\* The rounds are over, the feed-forward step is next, and the working
\* copy differs from the initial state in word 0, one of the constants.
C22_Witness ==
  /\ pc = "rounds"
  /\ frame.round_num = 10
  /\ Len(quarter_rounds) = 80
  /\ StateList[0] = W(24944, 30821)
  /\ WorkingList[0] # StateList[0]

\* C23: the 16 words chacha20_block serializes are
\* final[i] = (W[i] + S[i]) mod 2^32 for every i in 0..15, W the working
\* state after all the rounds and S the initial state; the words of W are
\* never the output without this addition.
C23_FeedForward ==
  RoundsDone =>
    /\ DOMAIN FinalList = 0..15
    /\ \A i \in 0..15 :
         FinalList[i] = AddMod32(WorkingList[i],
                                 initial_state(args.key, args.counter,
                                               args.nonce).value[i])
    /\ pc = "returned" =>
         \A j \in 1..64 :
           result.value[j] =
             WordByte(AddMod32(WorkingList[(j - 1) \div 4],
                               StateList[(j - 1) \div 4]), (j - 1) % 4)

\* A call for counter 2^32 - 1 has returned; word 12 of the final state is
\* not that of the working state, and the sum of the two words has wrapped:
\* the final word is below the counter.
C23_Witness ==
  /\ pc = "returned"
  /\ args.counter = W(Limb - 1, Limb - 1)
  /\ FinalList[12] # WorkingList[12]
  /\ FinalList[12].hi < Limb - 1

\* C24: for every valid key, nonce and counter, chacha20_block returns
\* exactly 64 bytes, where bytes 4i .. 4i+3 are final word i, least
\* significant byte first (word 0 first).  (Byte number n of the statement
\* is result.value[n + 1].)
C24_Serialization ==
  (pc = "returned" /\ IsU32(args.counter)) =>
    /\ Len(result.value) = 64
    /\ \A i \in 0..15 :
         /\ result.value[4 * i + 1] = FinalList[i].lo % 256
         /\ result.value[4 * i + 2] = FinalList[i].lo \div 256
         /\ result.value[4 * i + 3] = FinalList[i].hi % 256
         /\ result.value[4 * i + 4] = FinalList[i].hi \div 256

\* The call for the key 00 .. 1f, the nonce of the RFC and counter 1 has
\* returned 22 4f 51 f3 ...: final word 0 is 0xf3514f22.
C24_Witness ==
  /\ pc = "returned"
  /\ args.key = Bytes(32, 0) /\ args.nonce = RfcNonce /\ args.counter = W(0, 1)
  /\ FinalList[0] = W(62289, 20258)
  /\ SubSeq(result.value, 1, 4) = << 34, 79, 81, 243 >>

\* C25: quarter_round(state, a, b, c, d) with four distinct indices changes
\* only the words at a, b, c and d: the other 12 words are what they were
\* when the call was made, and the list still has 16 words.
C25_QuarterRoundFrame ==
  QuarterRoundReturned =>
    /\ DOMAIN args.state = 0..15
    /\ ListLen(args.state) = 16
    /\ \A i \in 0..15 \ {args.a, args.b, args.c, args.d} :
         args.state[i] = message[i]
    /\ result = Returned("None")

\* quarter_round(state, 2, 7, 8, 13) has returned on the state of the vector
\* of the RFC: words 2, 7, 8 and 13 have changed, word 14 has not.
C25_Witness ==
  /\ QuarterRoundReturned
  /\ message = RfcQuarterRoundState
  /\ << args.a, args.b, args.c, args.d >> = << 2, 7, 8, 13 >>
  /\ \A i \in {2, 7, 8, 13} : args.state[i] # message[i]
  /\ args.state[14] = message[14]

\* The call has a key of 32 bytes, a nonce of 12 bytes and a counter of
\* 2^32 or above.
WideCounterCall == ~BadLengths /\ ~IsU32(args.counter)

\* C29: for every valid key and nonce and every counter c >= 2^32,
\* chacha20_block(key, c, nonce) raises no error and returns what
\* chacha20_block(key, c mod 2^32, nonce) returns: word 12 of the working
\* state is within 32 bits from the first rotation of the first
\* quarter-round (0, 4, 8, 12) on, and word 12 of the final state by the
\* masked addition.
C29_WideCounterWraps ==
  WideCounterCall =>
    /\ pc # "raised"
    /\ pc = "returned" =>
         result = chacha20_block(args.key, And32(args.counter), args.nonce)
    /\ (Len(quarter_rounds) > 1 \/ (pc = "quarter_round" /\ frame.line > 3)) =>
         IsU32(WorkingList[12])
    /\ RoundsDone => IsU32(FinalList[12])

\* The call for counter 2^32 has returned 64 bytes; word 12 of its initial
\* state is 2^32 still.
C29_Witness ==
  /\ WideCounterCall
  /\ pc = "returned"
  /\ args.counter = W(Limb, 0)
  /\ StateList[12] = W(Limb, 0)
  /\ Len(result.value) = 64

\* C30: when chacha20_block is called with a valid key and nonce and a
\* counter in [0, 2^32), the working state has, at every point of the
\* rounds (after each add, xor and rotate assignment of every
\* quarter-round), exactly 16 words, each in [0, 2^32).
C30_WorkingStateRange ==
  (IsU32(args.counter) /\ frame.working_state # 0) =>
    /\ DOMAIN WorkingList = 0..15
    /\ \A i \in 0..15 : IsU32(WorkingList[i])

\* The first addition of a quarter-round of the last double round has just
\* been stored, and it has wrapped: the sum stored at a is below the word
\* at b that was added.
C30_Witness ==
  /\ IsU32(args.counter)
  /\ pc = "quarter_round"
  /\ frame.round_num = 9
  /\ frame.line = 2
  /\ WorkingList[frame.a].hi < WorkingList[frame.b].hi

(***************************************************************************)
(* Properties of the loop of chacha20_encrypt.                             *)
(***************************************************************************)

\* A chacha20_encrypt call on a non-empty input with a key of 32 bytes and
\* a nonce of 12 bytes.
ValidEncrypt == IsEncrypt /\ ~BadLengths /\ Len(args.plaintext) > 0

\* C26: for every input of length n > 0 (and a valid key and nonce),
\* chacha20_encrypt invokes chacha20_block exactly ceil(n / 64) times, once
\* in each pass of its loop, and then terminates by returning the output:
\* a call that has been made always returns.
C26_BlockCountTerminates ==
  /\ [](ValidEncrypt =>
          /\ pc = "loop" => (Len(blocks) = counter /\ 64 * counter < Len(args.plaintext) + 64)
          /\ pc = "returned" =>
               /\ 64 * Len(blocks) >= Len(args.plaintext)
               /\ 64 * (Len(blocks) - 1) < Len(args.plaintext)
               /\ Len(result.value) = Len(args.plaintext))
  /\ ((ValidEncrypt /\ pc \in {"call", "loop"}) ~> (ValidEncrypt /\ pc = "returned"))

\* A call on 64 bytes has returned after exactly one chacha20_block call.
C26_Witness ==
  /\ ValidEncrypt /\ pc = "returned" /\ nth = 1
  /\ Len(args.plaintext) = 64
  /\ Len(blocks) = 1
  /\ Len(result.value) = 64

\* C27: within one chacha20_encrypt call the counters passed to
\* chacha20_block for blocks 0, 1, 2, ... are initial_counter,
\* initial_counter + 1, ... in block order, each one more than the one before
\* it, and no two blocks of the call are generated from the same counter,
\* not even as the 32-bit word the counter leaves in the state.
C27_CountersIncrease ==
  IsEncrypt =>
    /\ \A i \in 1..Len(blocks) : blocks[i] = Add(InitialCounter, PyInt(i - 1))
    /\ \A i \in 1..(Len(blocks) - 1) : blocks[i + 1] = Add(blocks[i], W(0, 1))
    /\ \A i, j \in 1..Len(blocks) : i # j => And32(blocks[i]) # And32(blocks[j])

\* A call on three blocks from counter 2^32 - 1 has returned: its counters
\* were 2^32 - 1, 2^32 and 2^32 + 1.
C27_Witness ==
  /\ ValidEncrypt /\ pc = "returned"
  /\ InitialCounter = W(Limb - 1, Limb - 1)
  /\ blocks = << W(Limb - 1, Limb - 1), W(Limb, 0), W(Limb, 1) >>

(***************************************************************************)
(* Properties of the blocks of one message computed in any order.          *)
(***************************************************************************)

\* The workers that have entered their chacha20_block call.
Entered == { c \in DOMAIN frame : frame[c].line # "start" }

\* C28: however the computations of the blocks of a message are ordered and
\* interleaved, each chacha20_block computation has its own state and
\* working_state lists, its state list stays the initial state of its own
\* counter, the block a worker produces is its own slice of the plaintext
\* XORed with the keystream block of its own counter, and the blocks put
\* together by block index are exactly what the sequential loop of
\* chacha20_encrypt returns.
C28_BlockIndependence ==
  /\ \A c \in Entered :
       /\ frame[c].state # frame[c].working_state
       /\ \A d \in Entered \ {c} :
            {frame[c].state, frame[c].working_state}
              \cap {frame[d].state, frame[d].working_state} = {}
       /\ heap[frame[c].state]
            = initial_state(args.key, Add(InitialCounter, PyInt(c)), args.nonce).value
  /\ \A c \in DOMAIN frame :
       frame[c].line = "done" =>
         \A keystream \in { chacha20_block(args.key, Add(InitialCounter, PyInt(c)),
                                           args.nonce) } :
           frame[c].block
             = [i \in 1..(min((c * 64) + 64, Len(args.plaintext)) - (c * 64)) |->
                  XorNat(args.plaintext[(c * 64) + i], keystream.value[i])]
  /\ pc = "returned" =>
       result = chacha20_encrypt(args.key, args.nonce, args.plaintext, InitialCounter)

\* The blocks were computed out of order: the worker of the last block was
\* the first to call chacha20_block, the list objects of block 0 were made
\* after those of the last block, and the output has been put together.
C28_Witness ==
  /\ pc = "returned"
  /\ Len(blocks) > 1
  /\ blocks[1] = Add(InitialCounter, PyInt(Len(blocks) - 1))
  /\ frame[0].state > frame[Len(blocks) - 1].state
  /\ Len(result.value) = Len(args.plaintext)

=============================================================================
